---- MODULE Spec2Model ----
(***************************************************************************)
(* noters: encrypted notes kept as one blob file per note in a notes       *)
(* directory, described by one row per note in an SQLite index.            *)
(* NotesManager (src/src/note.rs) composes Database (src/src/db.rs),       *)
(* Crypto (src/src/crypto.rs) and the filesystem.  Every operation is      *)
(* modelled as the sequence of its filesystem / index / editor sub-steps,  *)
(* so that a failure of a sub-step and a kill of the process between two   *)
(* sub-steps are states of the model.                                      *)
(*                                                                         *)
(* Text is a sequence of one-character strings.                            *)
(***************************************************************************)
EXTENDS Integers, Sequences, FiniteSets, TLC

\* ---------------------------------------------------------------- bounds
\* ids handed out by the index stay within 1..MaxId
MaxId == 2
\* at most MaxCalls operations are called in a run (a blob going bad on disk
\* counts as one)
MaxCalls == 3
\* the byte sequences handed to encrypt on its own have at most MaxData bytes
MaxData == 2
\* the titles handed to the filename functions on their own have at most
\* MaxTitleLen characters
MaxTitleLen == 2

\* ------------------------------------------------------------- characters
Digits == <<"0", "1", "2", "3", "4", "5", "6", "7", "8", "9">>

Letters == {"a", "b", "x", "A"}

\* char::is_alphanumeric on the characters the model uses
IsAlphanumeric(c) == c \in Letters \/ (\E i \in 1..10 : Digits[i] = c)

\* char::is_whitespace on the characters the model uses
IsWhitespace(c) == c \in {" ", "\n", "\t"}

TwoDigits(n) == <<Digits[(n \div 10) + 1], Digits[(n % 10) + 1]>>

\* the day the model's clock runs in, as %Y, %m, %d
Year  == <<"2", "0", "2", "4">>
Month == <<"0", "1">>
Day   == <<"0", "1">>

Hour(t)   == TwoDigits((t \div 3600) % 24)
Minute(t) == TwoDigits((t \div 60) % 60)
Second(t) == TwoDigits(t % 60)

\* Local::now().format("%Y%m%d-%H%M%S")
FormatTimestamp(t) == Year \o Month \o Day \o <<"-">> \o Hour(t) \o Minute(t) \o Second(t)

\* Local::now().format("%Y-%m-%d %H:%M:%S")
FormatDate(t) ==
    Year \o <<"-">> \o Month \o <<"-">> \o Day \o <<" ">>
         \o Hour(t) \o <<":">> \o Minute(t) \o <<":">> \o Second(t)

\* ------------------------------------------------------------ text helpers
RECURSIVE TrimStartWhitespace(_)
TrimStartWhitespace(s) ==
    IF s # <<>> /\ IsWhitespace(Head(s)) THEN TrimStartWhitespace(Tail(s)) ELSE s

RECURSIVE TrimEndWhitespace(_)
TrimEndWhitespace(s) ==
    IF s # <<>> /\ IsWhitespace(s[Len(s)])
    THEN TrimEndWhitespace(SubSeq(s, 1, Len(s) - 1)) ELSE s

\* str::trim
Trim(s) == TrimEndWhitespace(TrimStartWhitespace(s))

RECURSIVE TrimStartDash(_)
TrimStartDash(s) ==
    IF s # <<>> /\ Head(s) = "-" THEN TrimStartDash(Tail(s)) ELSE s

RECURSIVE TrimEndDash(_)
TrimEndDash(s) ==
    IF s # <<>> /\ s[Len(s)] = "-" THEN TrimEndDash(SubSeq(s, 1, Len(s) - 1)) ELSE s

\* str::trim_matches('-')
TrimMatchesDash(s) == TrimEndDash(TrimStartDash(s))

\* Iterator::take(n)
Take(s, n) == SubSeq(s, 1, IF Len(s) < n THEN Len(s) ELSE n)

\* s contains t as a contiguous run
Contains(s, t) ==
    \E i \in 1..(Len(s) - Len(t) + 1) : SubSeq(s, i, i + Len(t) - 1) = t

\* the position of the last '.' of a name, 0 when it has none
LastDot(s) ==
    LET dots == {i \in 1..Len(s) : s[i] = "."}
    IN  IF dots = {} THEN 0 ELSE CHOOSE i \in dots : \A j \in dots : j <= i

\* Path::with_extension on a file name: the part after the last '.' is
\* replaced; a name with no '.' (or only a leading one) gets the extension
\* appended
WithExtension(name, ext) ==
    LET d    == LastDot(name)
        stem == IF d <= 1 THEN name ELSE SubSeq(name, 1, d - 1)
    IN  IF ext = <<>> THEN stem ELSE stem \o <<".">> \o ext

\* ------------------------------------------------------- filename building
MaxFilenameLen == 255

SanitizeChar(c) == IF IsAlphanumeric(c) \/ c = "-" \/ c = "_" THEN c ELSE "-"

\* NotesManager::sanitize_filename
sanitize_filename(filename) ==
    Take(TrimMatchesDash([i \in 1..Len(filename) |-> SanitizeChar(filename[i])]),
         MaxFilenameLen)

SafeTitleChar(c) == IF ~IsAlphanumeric(c) /\ c # "-" THEN "-" ELSE c

\* NotesManager::format_filename, with the clock reading t and the
\* configured default extension ext
format_filename(title, t, ext) ==
    FormatTimestamp(t) \o <<"-">> \o [i \in 1..Len(title) |-> SafeTitleChar(title[i])]
        \o <<".">> \o ext

\* the note content create_note builds at clock reading t
NoteHeader(title, t) ==
    <<"-", "-", "-", "\n", "t", "i", "t", "l", "e", ":", " ">> \o title
        \o <<"\n", "d", "a", "t", "e", ":", " ">> \o FormatDate(t)
        \o <<"\n", "-", "-", "-", "\n", "\n">>

\* the check without the trim
IsEmptyTitle(title) == title = <<>>

\* title.trim().is_empty()
IsBlankTitle(title) == Trim(title) = <<>>

\* ------------------------------------------------------------------ crypto
\* File contents.  An envelope is what Crypto::encrypt returns: the base64
\* text of nonce || ciphertext || tag, kept as the plaintext it authenticates
\* (the random nonce is read by nothing but decrypt, and is left out).
\* Plain bytes and damaged bytes (a corrupted or truncated file) are what
\* decrypt rejects.
Envelope(plaintext) == [kind |-> "envelope", body |-> plaintext]

PlainBytes(bytes) == [kind |-> "plain", body |-> bytes]

Damaged == [kind |-> "damaged", body |-> <<>>]

\* Crypto::encrypt
Encrypt(data) == Envelope(data)

\* Crypto::decrypt: base64 decoding, the length check or the tag check fails
\* on everything that is not an envelope made under the key
DecryptOk(data) == data.kind = "envelope"

Decrypt(data) == data.body

\* --------------------------------------------------- crypto, byte by byte
\* Crypto::encrypt and Crypto::decrypt on bytes (0..255), for the claims about
\* the two functions themselves.
NonceLen == 12

\* the length of the tag Aes256Gcm appends to the ciphertext
TagLen == 16

\* the STANDARD alphabet
B64Chars ==
    << "A", "B", "C", "D", "E", "F", "G", "H", "I", "J", "K", "L", "M", "N", "O", "P",
       "Q", "R", "S", "T", "U", "V", "W", "X", "Y", "Z", "a", "b", "c", "d", "e", "f",
       "g", "h", "i", "j", "k", "l", "m", "n", "o", "p", "q", "r", "s", "t", "u", "v",
       "w", "x", "y", "z", "0", "1", "2", "3", "4", "5", "6", "7", "8", "9", "+", "/" >>

\* the six-bit value of a character, 64 for a character not in the alphabet
B64Value(c) ==
    IF \E i \in 1..64 : B64Chars[i] = c
    THEN (CHOOSE i \in 1..64 : B64Chars[i] = c) - 1
    ELSE 64

\* BASE64.encode: three bytes to four characters, the last group padded
RECURSIVE B64Encode(_)
B64Encode(bytes) ==
    IF bytes = <<>> THEN <<>>
    ELSE LET n  == Len(bytes)
             b1 == bytes[1]
             b2 == IF n >= 2 THEN bytes[2] ELSE 0
             b3 == IF n >= 3 THEN bytes[3] ELSE 0
             c1 == B64Chars[(b1 \div 4) + 1]
             c2 == B64Chars[((b1 % 4) * 16 + (b2 \div 16)) + 1]
             c3 == B64Chars[((b2 % 16) * 4 + (b3 \div 64)) + 1]
             c4 == B64Chars[(b3 % 64) + 1]
         IN  IF n = 1 THEN <<c1, c2, "=", "=">>
             ELSE IF n = 2 THEN <<c1, c2, c3, "=">>
             ELSE <<c1, c2, c3, c4>> \o B64Encode(SubSeq(bytes, 4, n))

DecodeError == [ok |-> FALSE, bytes |-> <<>>]

DecodeOk(bytes) == [ok |-> TRUE, bytes |-> bytes]

\* BASE64.decode: groups of four characters; padding only at the end of the
\* last group, and the bits the padding leaves unused must be zero
RECURSIVE B64Decode(_)
B64Decode(text) ==
    IF text = <<>> THEN DecodeOk(<<>>)
    ELSE IF Len(text) < 4 THEN DecodeError
    ELSE LET v1   == B64Value(text[1])
             v2   == B64Value(text[2])
             v3   == B64Value(text[3])
             v4   == B64Value(text[4])
             last == Len(text) = 4
             b1   == v1 * 4 + (v2 \div 16)
             b2   == (v2 % 16) * 16 + (v3 \div 4)
             b3   == (v3 % 4) * 64 + v4
         IN  IF v1 = 64 \/ v2 = 64 THEN DecodeError
             ELSE IF last /\ text[3] = "=" /\ text[4] = "="
                  THEN IF v2 % 16 = 0 THEN DecodeOk(<<b1>>) ELSE DecodeError
             ELSE IF v3 = 64 THEN DecodeError
             ELSE IF last /\ text[4] = "="
                  THEN IF v3 % 4 = 0 THEN DecodeOk(<<b1, b2>>) ELSE DecodeError
             ELSE IF v4 = 64 THEN DecodeError
             ELSE LET rest == B64Decode(SubSeq(text, 5, Len(text)))
                  IN  IF rest.ok THEN DecodeOk(<<b1, b2, b3>> \o rest.bytes)
                      ELSE DecodeError

RECURSIVE SumBytes(_)
SumBytes(bytes) == IF bytes = <<>> THEN 0 ELSE Head(bytes) + SumBytes(Tail(bytes))

\* Aes256Gcm under the key of the store, by its contract: a keystream set by
\* the nonce hides each byte, a tag over nonce and ciphertext follows
KeyStream(nonce, i) == (nonce[1] * 7 + nonce[NonceLen] * 3 + 31 * i + 101) % 256

CipherTag(nonce, ciphertext) ==
    [j \in 1..TagLen |->
        (SumBytes(nonce) + 5 * SumBytes(ciphertext) + 13 * Len(ciphertext) + 29 * j) % 256]

\* cipher.encrypt(nonce, data)
Seal(nonce, data) ==
    LET ciphertext == [i \in 1..Len(data) |-> (data[i] + KeyStream(nonce, i)) % 256]
    IN  ciphertext \o CipherTag(nonce, ciphertext)

\* cipher.decrypt(nonce, ciphertext): the tag is checked first
Open(nonce, sealed) ==
    IF Len(sealed) < TagLen THEN DecodeError
    ELSE LET ciphertext == SubSeq(sealed, 1, Len(sealed) - TagLen)
             tag        == SubSeq(sealed, Len(sealed) - TagLen + 1, Len(sealed))
         IN  IF tag # CipherTag(nonce, ciphertext) THEN DecodeError
             ELSE DecodeOk([i \in 1..Len(ciphertext) |->
                               (ciphertext[i] + 256 - KeyStream(nonce, i)) % 256])

\* encrypt that leaves the nonce out of what it encodes
encrypt_without_nonce(data, nonce) == B64Encode(Seal(nonce, data))

\* Crypto::encrypt, with the nonce the random generator gives
encrypt(data, nonce) == B64Encode(nonce \o Seal(nonce, data))

\* Crypto::decrypt
decrypt(text) ==
    LET decoded == B64Decode(text)
    IN  IF ~decoded.ok THEN DecodeError
        ELSE IF Len(decoded.bytes) < NonceLen THEN DecodeError
        ELSE Open(SubSeq(decoded.bytes, 1, NonceLen),
                  SubSeq(decoded.bytes, NonceLen + 1, Len(decoded.bytes)))

\* ------------------------------------------------------------------- state
NotesDir   == "notes"
ExportsDir == "exports"

\* the titles handed to create: empty, blank, a plain one, and one that reads
\* like a blob name without its extension
Titles ==
    { <<>>, <<" ">>, <<"a">>, FormatTimestamp(0) \o <<"-", "a">> }

\* default_extension values of the configuration: the default, and "temp"
DefaultExtension == <<"m", "d">>
TempExtension    == <<"t", "e", "m", "p">>

\* what config.editor.or_else(env EDITOR) resolves to at a call: none or one
Editors == {"none", "vi"}

\* the queries handed to search: empty, a stored letter, the same letter in
\* the other case, the two characters LIKE reads as wildcards, a letter no
\* stored text holds
Queries == { <<>>, <<"a">>, <<"A">>, <<"_">>, <<"%">>, <<"b">> }

\* a byte that starts no UTF-8 sequence
BadByte == "0xFF"

\* what the user may leave in the temporary file when saving in the editor:
\* a text, or bytes that are not UTF-8
EditedTexts == { <<"x">>, <<BadByte>> }

\* export_notes' argument: no directory, or an explicit one
ExportArgs == {"none", NotesDir, ExportsDir}

Ids == 1..MaxId

\* the readings of the wall clock, in seconds of the day: the second the run
\* starts in and the one after it
Seconds == {0, 1}

VARIABLES
    config,   \* Config: default_extension, export_dir
    db,       \* the notes table: a set of rows
    files,    \* the filesystem: <<directory, file name>> -> contents
    dirs,     \* the directories that exist
    now,      \* the wall clock, in seconds
    pc,       \* the sub-step the running operation is at, "idle" between calls
    call,     \* the running operation's arguments and locals
    res,      \* what the last operation returned (a search: and its query)
    calls,    \* how many operations have been called
    probe,    \* the last call of a pure function on its own: arguments and value
    issued    \* history: the ids the index has given to a row so far

vars == <<config, db, files, dirs, now, pc, call, res, calls, probe, issued>>

NoFiles == [p \in {} |-> Damaged]

Path(dir, name) == <<dir, name>>

Exists(fs, p) == p \in DOMAIN fs

\* fs::write: creates or truncates
WriteFile(fs, p, data) == [q \in DOMAIN fs \cup {p} |-> IF q = p THEN data ELSE fs[q]]

\* fs::remove_file of an existing file
RemoveFile(fs, p) == [q \in DOMAIN fs \ {p} |-> fs[q]]

NoCall ==
    [name |-> "none", id |-> 0, title |-> <<>>, filename |-> <<>>, temp |-> <<>>,
     encrypted |-> Damaged, content |-> <<>>, target |-> "none", queue |-> <<>>,
     existed |-> FALSE, success |-> 0, total |-> 0, readable |-> {}, unwritten |-> 0]

Result(status, error, flag, success, total, text, notes, query) ==
    [status |-> status, error |-> error, flag |-> flag,
     success |-> success, total |-> total, text |-> text, notes |-> notes,
     query |-> query]

NoResult    == Result("none", "none", FALSE, 0, 0, <<>>, <<>>, <<>>)
Ok          == Result("ok", "none", FALSE, 0, 0, <<>>, <<>>, <<>>)
OkBool(b)   == Result("ok", "none", b, 0, 0, <<>>, <<>>, <<>>)
OkCounts(s, t) == Result("ok", "none", FALSE, s, t, <<>>, <<>>, <<>>)
OkText(t)   == Result("ok", "none", FALSE, 0, 0, t, <<>>, <<>>)
\* Vec<NoteRecord>: the records, in the order returned
OkNotes(n)  == Result("ok", "none", FALSE, 0, 0, <<>>, n, <<>>)
\* the records a search returned, with the query they answer
OkFound(q, n) == Result("ok", "none", FALSE, 0, 0, <<>>, n, q)
Err(e)      == Result("err", e, FALSE, 0, 0, <<>>, <<>>, <<>>)
\* the process was killed before the operation returned
Killed      == Result("killed", "none", FALSE, 0, 0, <<>>, <<>>, <<>>)

\* no pure function has been called on its own
NoProbe == [op |-> "none"]

\* ------------------------------------------------------------------- index
Filenames(rows) == {r.filename : r \in rows}

RowIds(rows) == {r.id : r \in rows}

\* Database::get_note
HasNote(rows, id) == id \in RowIds(rows)

get_note(rows, id) == CHOOSE r \in rows : r.id = id

\* the rowid SQLite gives an INTEGER PRIMARY KEY column that is not
\* AUTOINCREMENT: one more than the largest rowid in the table
NextRowId(rows) ==
    IF rows = {} THEN 1
    ELSE (CHOOSE i \in RowIds(rows) : \A j \in RowIds(rows) : j <= i) + 1

\* Database::insert_note at clock reading t.  created_at holds the reading
\* (the code stores its RFC3339 text, which ORDER BY compares as text: the
\* texts of two readings are in the order of the readings)
insert_note(rows, title, filename, t) ==
    rows \cup {[id |-> NextRowId(rows), title |-> title, filename |-> filename,
                created_at |-> t, updated_at |-> t]}

\* Database::delete_note
delete_note(rows, id) == {r \in rows : r.id # id}

\* the orders get_all_notes may return the rows in: ORDER BY created_at DESC,
\* rows with equal created_at in an order the query does not fix
RECURSIVE Listings(_)
Listings(rows) ==
    IF rows = {} THEN {<<>>}
    ELSE LET top == {r \in rows : \A o \in rows : o.created_at <= r.created_at}
         IN  UNION {{<<r>> \o q : q \in Listings(rows \ {r})} : r \in top}

\* SQLite folds the ASCII upper-case letters for LIKE
AsciiLower(c) ==
    CASE c = "A" -> "a"
      [] c = "B" -> "b"
      [] c = "X" -> "x"
      [] OTHER   -> c

\* text LIKE pattern, as SQLite evaluates it with no ESCAPE clause: '%' stands
\* for any run of characters, '_' for any one character, every other
\* character for itself, ASCII letters compared without regard to case
RECURSIVE LikeMatch(_, _)
LikeMatch(pattern, text) ==
    IF pattern = <<>> THEN text = <<>>
    ELSE IF Head(pattern) = "%"
         THEN \/ Len(pattern) = 1
              \/ \E k \in 0..Len(text) :
                    LikeMatch(Tail(pattern), SubSeq(text, k + 1, Len(text)))
    ELSE IF text = <<>> THEN FALSE
    ELSE IF Head(pattern) = "_" THEN LikeMatch(Tail(pattern), Tail(text))
    ELSE /\ AsciiLower(Head(pattern)) = AsciiLower(Head(text))
         /\ LikeMatch(Tail(pattern), Tail(text))

\* format!("%{}%", query)
SearchPattern(query) == <<"%">> \o query \o <<"%">>

\* the rows Database::search_notes selects
search_notes(rows, query) ==
    {r \in rows : \/ LikeMatch(SearchPattern(query), r.title)
                  \/ LikeMatch(SearchPattern(query), r.filename)}

\* String::from_utf8 / fs::read_to_string accept the bytes
IsUtf8(bytes) == \A i \in 1..Len(bytes) : bytes[i] # BadByte

\* what fs::read returns for a file
RawBytes(data) == IF data.kind = "plain" THEN data.body ELSE <<"base64">>

\* NotesManager::read_note as a function of the index and the filesystem
read_note(rows, fs, id) ==
    IF ~HasNote(rows, id) THEN Err("NoteNotFound")
    ELSE LET p == Path(NotesDir, get_note(rows, id).filename)
         IN  IF ~Exists(fs, p) THEN Err("Io")
             ELSE IF ~IsUtf8(RawBytes(fs[p])) THEN Err("Io")
             ELSE IF ~DecryptOk(fs[p]) THEN Err("Encryption")
             ELSE IF ~IsUtf8(Decrypt(fs[p])) THEN Err("Encryption")
             ELSE OkText(Decrypt(fs[p]))

\* -------------------------------------------------------------------- init
Init ==
    /\ \/ config = [default_extension |-> DefaultExtension, export_dir |-> ExportsDir]
       \/ config = [default_extension |-> TempExtension, export_dir |-> ExportsDir]
    /\ db = {}
    /\ files = NoFiles
    /\ dirs = {NotesDir}
    /\ now = 0
    /\ pc = "idle"
    /\ call = NoCall
    /\ res = NoResult
    /\ calls = 0
    /\ probe = NoProbe
    /\ issued = {}

\* an operation returns r: its locals are gone
Return(r) == pc' = "idle" /\ res' = r /\ call' = NoCall

\* One run of the program makes one call, when the run before it has ended.
\* An operation is called and returns r in its first sub-step
ReturnAtOnce(r) ==
    /\ res = NoResult
    /\ calls < MaxCalls
    /\ calls' = calls + 1
    /\ Return(r)

\* an operation is called and goes on to sub-step p with locals c
Enter(c, p) ==
    /\ res = NoResult
    /\ calls < MaxCalls
    /\ calls' = calls + 1
    /\ pc' = p
    /\ call' = c
    /\ res' = NoResult

\* ------------------------------------------------------------- environment
\* main reports what the operation returned and the run ends
Exit ==
    /\ pc = "idle"
    /\ res # NoResult
    /\ res' = NoResult
    /\ UNCHANGED <<config, probe, issued, db, files, dirs, now, pc, call, calls>>

\* the wall clock advances, at any moment
Tick ==
    /\ now + 1 \in Seconds
    /\ now' = now + 1
    /\ UNCHANGED <<config, probe, issued, db, files, dirs, pc, call, res, calls>>

\* the process is killed between two sub-steps of an operation
Kill ==
    /\ pc # "idle"
    /\ Return(Killed)
    /\ UNCHANGED <<config, probe, issued, db, files, dirs, now, calls>>

\* a blob file is corrupted on disk while no operation runs
CorruptBlob(p) ==
    /\ pc = "idle"
    /\ Exists(files, p)
    /\ p[1] = NotesDir
    /\ files[p].kind = "envelope"
    /\ files' = [files EXCEPT ![p] = Damaged]
    /\ res = NoResult
    /\ res' = NoResult
    /\ calls < MaxCalls
    /\ calls' = calls + 1
    /\ UNCHANGED <<config, probe, issued, db, dirs, now, pc, call>>

\* ------------------------------------------------------------- create_note
CreateInvalid(title) ==
    /\ pc = "idle"
    /\ IsBlankTitle(title)
    /\ ReturnAtOnce(Err("InvalidTitle"))
    /\ UNCHANGED <<config, probe, issued, db, files, dirs, now>>

\* create that goes on to the index insert without writing the blob
CreateBeginNoWrite(title) ==
    /\ pc = "idle"
    /\ ~IsBlankTitle(title)
    /\ NextRowId(db) <= MaxId
    /\ Enter([NoCall EXCEPT !.name = "create", !.title = title,
                !.filename = format_filename(title, now, config.default_extension),
                !.content = NoteHeader(title, now)],
             "create_insert")
    /\ UNCHANGED <<config, probe, issued, db, files, dirs, now>>

\* the title passes the check and the file name is formatted
CreateBegin(title) ==
    /\ pc = "idle"
    /\ ~IsBlankTitle(title)
    /\ NextRowId(db) <= MaxId
    /\ Enter([NoCall EXCEPT !.name = "create", !.title = title,
                !.filename = format_filename(title, now, config.default_extension)],
             "create_write")
    /\ UNCHANGED <<config, probe, issued, db, files, dirs, now>>

\* the write step storing the content as it is, not encrypted
CreateWriteUnencrypted ==
    /\ pc = "create_write"
    /\ LET content == NoteHeader(call.title, now)
       IN  /\ files' = WriteFile(files, Path(NotesDir, call.filename), PlainBytes(content))
           /\ call' = [call EXCEPT !.content = content]
    /\ pc' = "create_insert"
    /\ UNCHANGED <<config, probe, issued, db, dirs, now, res, calls>>

\* the content is built and encrypted, fs::write succeeds
CreateWrite ==
    /\ pc = "create_write"
    /\ LET content == NoteHeader(call.title, now)
       IN  /\ files' = WriteFile(files, Path(NotesDir, call.filename), Encrypt(content))
           /\ call' = [call EXCEPT !.content = content]
    /\ pc' = "create_insert"
    /\ UNCHANGED <<config, probe, issued, db, dirs, now, res, calls>>

\* fs::write fails: before creating the file, or after truncating it
CreateWriteFail(partial) ==
    /\ pc = "create_write"
    /\ files' = IF partial THEN WriteFile(files, Path(NotesDir, call.filename), Damaged)
                ELSE files
    /\ Return(Err("Io"))
    /\ UNCHANGED <<config, probe, issued, db, dirs, now, calls>>

\* db.insert_note succeeds
CreateInsert ==
    /\ pc = "create_insert"
    /\ call.filename \notin Filenames(db)
    /\ db' = insert_note(db, call.title, call.filename, now)
    /\ issued' = issued \cup {NextRowId(db)}
    /\ Return(Ok)
    /\ UNCHANGED <<config, probe, files, dirs, now, calls>>

\* the UNIQUE constraint on filename rejects the row
CreateInsertDuplicate ==
    /\ pc = "create_insert"
    /\ call.filename \in Filenames(db)
    /\ Return(Err("Database"))
    /\ UNCHANGED <<config, probe, issued, db, files, dirs, now, calls>>

\* the index fails for another reason
CreateInsertFail ==
    /\ pc = "create_insert"
    /\ Return(Err("Database"))
    /\ UNCHANGED <<config, probe, issued, db, files, dirs, now, calls>>

\* --------------------------------------------------------------- read_note
ReadNote(id) ==
    /\ pc = "idle"
    /\ ReturnAtOnce(read_note(db, files, id))
    /\ UNCHANGED <<config, probe, issued, db, files, dirs, now>>

\* ------------------------------------------------ list_notes, search_notes
\* get_all_notes returns the rows in one of the orders the query allows
ListNotes ==
    /\ pc = "idle"
    /\ \E listing \in Listings(db) : ReturnAtOnce(OkNotes(listing))
    /\ UNCHANGED <<config, probe, issued, db, files, dirs, now>>

\* search_notes returns the selected rows in one of the orders its query allows
SearchNotes(query) ==
    /\ pc = "idle"
    /\ \E listing \in Listings(search_notes(db, query)) : ReturnAtOnce(OkFound(query, listing))
    /\ UNCHANGED <<config, probe, issued, db, files, dirs, now>>

\* ------------------------------------------------------------- delete_note
\* delete of an unknown id answering true
DeleteMissingAnswersTrue(id) ==
    /\ pc = "idle"
    /\ ~HasNote(db, id)
    /\ ReturnAtOnce(OkBool(TRUE))
    /\ UNCHANGED <<config, probe, issued, db, files, dirs, now>>

DeleteMissing(id) ==
    /\ pc = "idle"
    /\ ~HasNote(db, id)
    /\ ReturnAtOnce(OkBool(FALSE))
    /\ UNCHANGED <<config, probe, issued, db, files, dirs, now>>

\* delete that goes on to the index delete and leaves the blob file
DeleteKeepsFile(id) ==
    /\ pc = "idle"
    /\ HasNote(db, id)
    /\ Enter([NoCall EXCEPT !.name = "delete", !.id = id,
                !.filename = get_note(db, id).filename,
                !.existed = Exists(files, Path(NotesDir, get_note(db, id).filename))],
             "delete_row")
    /\ UNCHANGED <<config, probe, issued, db, files, dirs, now>>

\* the record is found; its blob file is removed if it exists
DeleteRemoveFile(id) ==
    /\ pc = "idle"
    /\ HasNote(db, id)
    /\ LET p == Path(NotesDir, get_note(db, id).filename)
       IN  files' = IF Exists(files, p) THEN RemoveFile(files, p) ELSE files
    /\ Enter([NoCall EXCEPT !.name = "delete", !.id = id,
                !.filename = get_note(db, id).filename,
                !.existed = Exists(files, Path(NotesDir, get_note(db, id).filename))],
             "delete_row")
    /\ UNCHANGED <<config, probe, issued, db, dirs, now>>

\* fs::remove_file fails on the blob file that exists
DeleteRemoveFileFail(id) ==
    /\ pc = "idle"
    /\ HasNote(db, id)
    /\ Exists(files, Path(NotesDir, get_note(db, id).filename))
    /\ ReturnAtOnce(Err("Io"))
    /\ UNCHANGED <<config, probe, issued, db, files, dirs, now>>

\* db.delete_note succeeds
DeleteRow ==
    /\ pc = "delete_row"
    /\ db' = delete_note(db, call.id)
    /\ Return(OkBool(TRUE))
    /\ UNCHANGED <<config, probe, issued, files, dirs, now, calls>>

DeleteRowFail ==
    /\ pc = "delete_row"
    /\ Return(Err("Database"))
    /\ UNCHANGED <<config, probe, issued, db, files, dirs, now, calls>>

\* --------------------------------------------------------------- edit_note
\* the record is missing, its blob file is missing or is not UTF-8 text, or
\* it does not decrypt
EditBeginFail(id) ==
    /\ pc = "idle"
    /\ \/ ~HasNote(db, id) /\ ReturnAtOnce(Err("NoteNotFound"))
       \/ /\ HasNote(db, id)
          /\ ~Exists(files, Path(NotesDir, get_note(db, id).filename))
          /\ ReturnAtOnce(Err("Io"))
       \/ /\ HasNote(db, id)
          /\ Exists(files, Path(NotesDir, get_note(db, id).filename))
          /\ ~IsUtf8(RawBytes(files[Path(NotesDir, get_note(db, id).filename)]))
          /\ ReturnAtOnce(Err("Io"))
       \/ /\ HasNote(db, id)
          /\ Exists(files, Path(NotesDir, get_note(db, id).filename))
          /\ IsUtf8(RawBytes(files[Path(NotesDir, get_note(db, id).filename)]))
          /\ ~DecryptOk(files[Path(NotesDir, get_note(db, id).filename)])
          /\ ReturnAtOnce(Err("Encryption"))
    /\ UNCHANGED <<config, probe, issued, db, files, dirs, now>>

\* the record is fetched and its blob read and decrypted
EditBegin(id) ==
    /\ pc = "idle"
    /\ HasNote(db, id)
    /\ LET name == get_note(db, id).filename
           p    == Path(NotesDir, name)
       IN  /\ Exists(files, p)
           /\ DecryptOk(files[p])
           /\ Enter([NoCall EXCEPT !.name = "edit", !.id = id, !.filename = name,
                       !.temp = WithExtension(name, TempExtension),
                       !.encrypted = files[p],
                       !.content = Decrypt(files[p])], "edit_write_temp")
    /\ UNCHANGED <<config, probe, issued, db, files, dirs, now>>

\* the plaintext is written to the temporary file
EditWriteTemp ==
    /\ pc = "edit_write_temp"
    /\ files' = WriteFile(files, Path(NotesDir, call.temp), PlainBytes(call.content))
    /\ pc' = "edit_editor"
    /\ UNCHANGED <<config, probe, issued, db, dirs, now, call, res, calls>>

\* fs::write fails: before creating the file, or after truncating it
EditWriteTempFail(partial) ==
    /\ pc = "edit_write_temp"
    /\ files' = IF partial THEN WriteFile(files, Path(NotesDir, call.temp), Damaged)
                ELSE files
    /\ Return(Err("Io"))
    /\ UNCHANGED <<config, probe, issued, db, dirs, now, calls>>

\* neither the configuration nor the environment names an editor
EditNoEditor(editor) ==
    /\ pc = "edit_editor"
    /\ editor = "none"
    /\ Return(Err("EditorNotFound"))
    /\ UNCHANGED <<config, probe, issued, db, files, dirs, now, calls>>

\* Command::status() returns an error: the editor could not be started
EditSpawnFail(editor) ==
    /\ pc = "edit_editor"
    /\ editor # "none"
    /\ Return(Err("EditorError"))
    /\ UNCHANGED <<config, probe, issued, db, files, dirs, now, calls>>

\* the editor runs on the temporary file, saves text in it (or not) and
\* exits with success or with a non-zero status
EditorRun(editor, saves, text, success) ==
    /\ pc = "edit_editor"
    /\ editor # "none"
    /\ Exists(files, Path(NotesDir, call.temp))
    /\ files' = IF saves THEN WriteFile(files, Path(NotesDir, call.temp), PlainBytes(text))
                ELSE files
    /\ pc' = IF success THEN "edit_overwrite" ELSE "edit_cleanup"
    /\ UNCHANGED <<config, probe, issued, db, dirs, now, call, res, calls>>

\* non-zero exit: the temporary file is removed
EditCleanup ==
    /\ pc = "edit_cleanup"
    /\ Exists(files, Path(NotesDir, call.temp))
    /\ files' = RemoveFile(files, Path(NotesDir, call.temp))
    /\ Return(Err("EditorError"))
    /\ UNCHANGED <<config, probe, issued, db, dirs, now, calls>>

EditCleanupFail ==
    /\ pc = "edit_cleanup"
    /\ Return(Err("Io"))
    /\ UNCHANGED <<config, probe, issued, db, files, dirs, now, calls>>

\* the overwrite refreshing the row's updated_at as well
EditOverwriteTouch ==
    /\ pc = "edit_overwrite"
    /\ Exists(files, Path(NotesDir, call.temp))
    /\ files' = WriteFile(files, Path(NotesDir, call.filename),
                          Encrypt(RawBytes(files[Path(NotesDir, call.temp)])))
    /\ db' = {IF r.id = call.id THEN [r EXCEPT !.updated_at = now] ELSE r : r \in db}
    /\ pc' = "edit_remove_temp"
    /\ UNCHANGED <<config, probe, issued, dirs, now, call, res, calls>>

\* the temporary file is read back, encrypted and written over the blob
EditOverwrite ==
    /\ pc = "edit_overwrite"
    /\ Exists(files, Path(NotesDir, call.temp))
    /\ files' = WriteFile(files, Path(NotesDir, call.filename),
                          Encrypt(RawBytes(files[Path(NotesDir, call.temp)])))
    /\ pc' = "edit_remove_temp"
    /\ UNCHANGED <<config, probe, issued, db, dirs, now, call, res, calls>>

\* fs::read of the temporary file fails, or fs::write of the blob fails,
\* before creating the file or after truncating it
EditOverwriteFail(partial) ==
    /\ pc = "edit_overwrite"
    /\ files' = IF partial THEN WriteFile(files, Path(NotesDir, call.filename), Damaged)
                ELSE files
    /\ Return(Err("Io"))
    /\ UNCHANGED <<config, probe, issued, db, dirs, now, calls>>

EditRemoveTemp ==
    /\ pc = "edit_remove_temp"
    /\ Exists(files, Path(NotesDir, call.temp))
    /\ files' = RemoveFile(files, Path(NotesDir, call.temp))
    /\ Return(Ok)
    /\ UNCHANGED <<config, probe, issued, db, dirs, now, calls>>

EditRemoveTempFail ==
    /\ pc = "edit_remove_temp"
    /\ Return(Err("Io"))
    /\ UNCHANGED <<config, probe, issued, db, files, dirs, now, calls>>

\* ------------------------------------------------------------ export_notes
ResolveTarget(arg) == IF arg = "none" THEN config.export_dir ELSE arg

\* the file export_notes writes a note to
ExportName(title) == sanitize_filename(title) \o <<".">> \o config.default_extension

\* the ids of the records read_note succeeds on
Readable(rows, fs) == {r.id : r \in {n \in rows : read_note(rows, fs, n.id).status = "ok"}}

\* no notes: (0, 0) at once
ExportEmpty(arg) ==
    /\ pc = "idle"
    /\ db = {}
    /\ ReturnAtOnce(OkCounts(0, 0))
    /\ UNCHANGED <<config, probe, issued, db, files, dirs, now>>

\* the notes are listed and the target directory is created; readable
\* remembers the notes whose blob would decrypt at this moment
ExportBegin(arg, listing) ==
    /\ pc = "idle"
    /\ db # {}
    /\ listing \in Listings(db)
    /\ dirs' = dirs \cup {ResolveTarget(arg)}
    /\ Enter([NoCall EXCEPT !.name = "export", !.target = ResolveTarget(arg),
                !.queue = listing, !.total = Len(listing),
                !.readable = Readable(db, files)], "export_loop")
    /\ UNCHANGED <<config, probe, issued, db, files, now>>

\* fs::create_dir_all fails
ExportBeginFail(arg) ==
    /\ pc = "idle"
    /\ db # {}
    /\ ResolveTarget(arg) \notin dirs
    /\ ReturnAtOnce(Err("Io"))
    /\ UNCHANGED <<config, probe, issued, db, files, dirs, now>>

\* export_note succeeds on the next note of the listing
ExportNote ==
    /\ pc = "export_loop"
    /\ call.queue # <<>>
    /\ LET note == Head(call.queue)
           r    == read_note(db, files, note.id)
       IN  /\ r.status = "ok"
           /\ files' = WriteFile(files, Path(call.target, ExportName(note.title)),
                                 PlainBytes(r.text))
    /\ call' = [call EXCEPT !.queue = Tail(@), !.success = @ + 1]
    /\ UNCHANGED <<config, probe, issued, db, dirs, now, pc, res, calls>>

\* read_note fails on the next note: the failure is recorded, the loop goes on
ExportNoteReadFail ==
    /\ pc = "export_loop"
    /\ call.queue # <<>>
    /\ read_note(db, files, Head(call.queue).id).status = "err"
    /\ call' = [call EXCEPT !.queue = Tail(@)]
    /\ UNCHANGED <<config, probe, issued, db, files, dirs, now, pc, res, calls>>

\* fs::write of the plaintext fails, before creating the file or after
\* truncating it: recorded, the loop goes on
ExportNoteWriteFail(partial) ==
    /\ pc = "export_loop"
    /\ call.queue # <<>>
    /\ read_note(db, files, Head(call.queue).id).status = "ok"
    /\ files' = IF partial
                THEN WriteFile(files, Path(call.target, ExportName(Head(call.queue).title)),
                               Damaged)
                ELSE files
    /\ call' = [call EXCEPT !.queue = Tail(@), !.unwritten = @ + 1]
    /\ UNCHANGED <<config, probe, issued, db, dirs, now, pc, res, calls>>

ExportReturn ==
    /\ pc = "export_loop"
    /\ call.queue = <<>>
    /\ Return(OkCounts(call.success, call.total))
    /\ UNCHANGED <<config, probe, issued, db, files, dirs, now, calls>>

\* ------------------------------------------------------------ specification
\* the sub-steps that succeed
Steps ==
    \/ Tick
    \/ Exit
    \/ \E title \in Titles : CreateInvalid(title) \/ CreateBegin(title)
    \/ CreateWrite
    \/ CreateInsert
    \/ \E id \in Ids : ReadNote(id)
    \/ ListNotes
    \/ \E query \in Queries : SearchNotes(query)
    \/ \E id \in Ids : DeleteMissing(id) \/ DeleteRemoveFile(id)
    \/ DeleteRow
    \/ \E id \in Ids : EditBegin(id) \/ EditBeginFail(id)
    \/ EditWriteTemp
    \/ \E saves \in BOOLEAN : \E text \in EditedTexts : EditorRun("vi", saves, text, TRUE)
    \/ EditOverwrite
    \/ EditRemoveTemp
    \/ \E arg \in ExportArgs : ExportEmpty(arg)
    \/ \E arg \in ExportArgs : \E listing \in Listings(db) : ExportBegin(arg, listing)
    \/ ExportNote
    \/ ExportNoteReadFail
    \/ ExportReturn

\* the sub-steps that fail, the kill of the process, damage from outside
Faults ==
    \/ Kill
    \/ \E p \in DOMAIN files : CorruptBlob(p)
    \/ \E partial \in BOOLEAN : CreateWriteFail(partial)
    \/ CreateInsertDuplicate
    \/ CreateInsertFail
    \/ \E id \in Ids : DeleteRemoveFileFail(id)
    \/ DeleteRowFail
    \/ \E partial \in BOOLEAN : EditWriteTempFail(partial)
    \/ \E editor \in Editors : EditNoEditor(editor) \/ EditSpawnFail(editor)
    \/ \E saves \in BOOLEAN : \E text \in EditedTexts : EditorRun("vi", saves, text, FALSE)
    \/ EditCleanup
    \/ EditCleanupFail
    \/ \E partial \in BOOLEAN : EditOverwriteFail(partial)
    \/ EditRemoveTempFail
    \/ \E arg \in ExportArgs : ExportBeginFail(arg)
    \/ \E partial \in BOOLEAN : ExportNoteWriteFail(partial)

Next == Steps \/ Faults

Spec == Init /\ [][Next]_vars

\* the runs in which every filesystem, index and editor sub-step succeeds
SpecAllSucceed == Init /\ [][Steps]_vars

\* --------------------------------------------- the functions on their own
\* the sequences over S of at most n elements
SeqsUpTo(S, n) == UNION {[1..k -> S] : k \in 0..n}

\* the bytes the data handed to encrypt is made of
ProbeBytes == {0, 1, 255}

\* the nonces the random generator may give
Nonces == { [i \in 1..NonceLen |-> 0], [i \in 1..NonceLen |-> (17 * i + 200) % 256] }

\* the characters the titles handed to the filename functions are made of
ProbeChars == {"a", "_", "-", " "}

\* Crypto::encrypt is called on data
EncryptProbe(data, nonce) ==
    /\ probe' = [op |-> "encrypt", data |-> data, text |-> encrypt(data, nonce)]
    /\ UNCHANGED <<config, db, files, dirs, now, pc, call, res, calls, issued>>

\* Crypto::decrypt is called on what encrypt returned
DecryptProbe ==
    /\ probe.op = "encrypt"
    /\ probe' = [op |-> "decrypt", data |-> probe.data, text |-> probe.text,
                 out |-> decrypt(probe.text)]
    /\ UNCHANGED <<config, db, files, dirs, now, pc, call, res, calls, issued>>

\* the name create_note gives the blob of a note and the name export_notes
\* gives its plaintext, for the same title, one that create_note accepts
FilenameProbe(title) ==
    /\ ~IsBlankTitle(title)
    /\ probe' = [op |-> "filename", title |-> title,
                 blob |-> format_filename(title, now, config.default_extension),
                 export |-> sanitize_filename(title) \o <<".">> \o config.default_extension]
    /\ UNCHANGED <<config, db, files, dirs, now, pc, call, res, calls, issued>>

NextFunctions ==
    \/ \E data \in SeqsUpTo(ProbeBytes, MaxData) : \E nonce \in Nonces :
          EncryptProbe(data, nonce)
    \/ DecryptProbe
    \/ \E title \in SeqsUpTo(ProbeChars, MaxTitleLen) : FilenameProbe(title)

\* Crypto's and the filename functions' calls, each on its own
SpecFunctions == Init /\ [][NextFunctions]_vars

\* ================================================================== claims
BlobPath(name) == Path(NotesDir, name)

\* the two filesystems agree on every path but p
SameExcept(fs1, fs2, p) ==
    \A q \in (DOMAIN fs1 \cup DOMAIN fs2) \ {p} :
        q \in DOMAIN fs1 /\ q \in DOMAIN fs2 /\ fs1[q] = fs2[q]

\* the names of the files in the notes directory
NoteFileNames(fs) == {p[2] : p \in {q \in DOMAIN fs : q[1] = NotesDir}}

\* a step that ends the running operation without success: a sub-step failed
\* or the process was killed
Interrupted == pc # "idle" /\ pc' = "idle" /\ res'.status # "ok"

\* ---- C1
\* C1: when delete(id) on an existing record is interrupted between its two
\* sub-steps (the process is killed, or the index delete fails), the record,
\* if still in the index, has its blob file: at worst an orphan file is left,
\* never a row whose blob file is missing.
C1_DeleteInterruptedLeavesNoDanglingRow ==
    [][ (pc = "delete_row" /\ Interrupted)
        => \A r \in db' : r.id = call.id => Exists(files', BlobPath(r.filename)) ]_vars

\* ---- C2
\* C2: create writes the blob before it inserts the row.  Every row that
\* appears in the index has its blob file on disk in the same state; while
\* create runs, rows are only added, only under create's file name, and no
\* file but the one of that name changes; a create that is interrupted leaves
\* the index as it was, so all it can leave behind is the file it wrote.
C2_CreateWritesBlobBeforeRow ==
    [][ /\ \A r \in db' \ db : Exists(files', BlobPath(r.filename))
        /\ pc \in {"create_write", "create_insert"}
           => /\ db \subseteq db'
              /\ \A r \in db' \ db : r.filename = call.filename
              /\ SameExcept(files, files', BlobPath(call.filename))
              /\ \A r \in db : Exists(files, BlobPath(r.filename))
                               => Exists(files', BlobPath(r.filename))
              /\ Interrupted => db' = db ]_vars

\* the blob is on disk and the row is not yet in the index
C2_Witness ==
    /\ pc = "create_insert"
    /\ Exists(files, BlobPath(call.filename))
    /\ call.filename \notin Filenames(db)

\* ---- C3
\* C3: in the runs in which every sub-step succeeds, whenever no operation is
\* running the files of the notes directory are exactly the blobs the index
\* rows name.
C3_BlobsAreExactlyTheRecords ==
    pc = "idle" => NoteFileNames(files) = Filenames(db)

\* ---- C4
\* C4: when the editor fails in edit(id), by not starting or by exiting with
\* a non-zero status, edit returns the editor error, the temporary file is
\* gone and the blob holds the bytes it held when edit was called.
C4_EditorFailureLeavesNoTempFile ==
    [][ ((\E editor \in Editors : EditSpawnFail(editor)) \/ EditCleanup)
        => /\ res' = Err("EditorError")
           /\ ~Exists(files', BlobPath(call.temp))
           /\ Exists(files', BlobPath(call.filename))
           /\ files'[BlobPath(call.filename)] = call.encrypted ]_vars

\* ---- C5
CreateCalled(title) == CreateInvalid(title) \/ CreateBegin(title)

AllWhitespace(title) == \A i \in 1..Len(title) : title[i] \in {" ", "\t", "\n"}

\* C5: a create whose title is empty or all whitespace returns the
\* invalid-title error at once and leaves the index, the files and the
\* directories as they were.
C5_BlankTitleIsRejected ==
    [][ \A title \in Titles :
          (AllWhitespace(title) /\ CreateCalled(title))
          => /\ pc' = "idle"
             /\ res' = Err("InvalidTitle")
             /\ db' = db /\ files' = files /\ dirs' = dirs ]_vars

C5_Witness == pc = "idle" /\ res = Err("InvalidTitle")

\* ---- C6
\* C6: create's write step adds or replaces the one file of the new name and
\* touches nothing else; the insert step that makes create succeed adds
\* exactly one row, with the title and the file name of the call and an id no
\* row had, changes no file, and a read of that id then returns the text
\* create built, which holds the title.
C6_CreateAddsOneRowOneBlob ==
    [][ /\ (pc = "create_write" /\ pc' = "create_insert")
           => /\ db' = db
              /\ DOMAIN files' = DOMAIN files \cup {BlobPath(call.filename)}
              /\ SameExcept(files, files', BlobPath(call.filename))
        /\ (pc = "create_insert" /\ pc' = "idle" /\ res'.status = "ok")
           => /\ files' = files
              /\ db \subseteq db'
              /\ Cardinality(db') = Cardinality(db) + 1
              /\ \A r \in db' \ db :
                    /\ r.id \notin RowIds(db)
                    /\ r.title = call.title
                    /\ r.filename = call.filename
                    /\ Exists(files', BlobPath(r.filename))
                    /\ read_note(db', files', r.id) = OkText(call.content)
                    /\ Contains(call.content, call.title)
                    /\ Len(call.title) > 0 ]_vars

\* a first create has returned success
C6_Witness == pc = "idle" /\ res = Ok /\ calls = 1 /\ Cardinality(db) = 1

\* ---- C7
DeleteCalled(id) == DeleteMissing(id) \/ DeleteRemoveFile(id) \/ DeleteRemoveFileFail(id)

\* C7: delete of an id no row has returns false at once and leaves the
\* index, the files and the directories as they were.
C7_DeleteUnknownChangesNothing ==
    [][ \A id \in Ids :
          (id \notin RowIds(db) /\ DeleteCalled(id))
          => /\ pc' = "idle"
             /\ res' = OkBool(FALSE)
             /\ db' = db /\ files' = files /\ dirs' = dirs ]_vars

\* delete of an unknown id has returned false while the store holds a note
C7_Witness == pc = "idle" /\ res = OkBool(FALSE) /\ db # {} /\ DOMAIN files # {}

\* ---- C8
\* C8: delete of an existing record never answers false; its first sub-step
\* removes the record's blob file, if there is one, and nothing else; the
\* sub-step that makes it return removes the record's row and nothing else,
\* and it returns true with the row and the blob file both gone, also when
\* the blob file was absent before the call.
C8_DeleteRemovesRowAndBlob ==
    [][ /\ \A id \in Ids :
              (id \in RowIds(db) /\ DeleteCalled(id) /\ pc' # "idle")
              => /\ pc' = "delete_row"
                 /\ db' = db
                 /\ ~Exists(files', BlobPath(get_note(db, id).filename))
                 /\ SameExcept(files, files', BlobPath(get_note(db, id).filename))
        /\ \A id \in Ids :
              (id \in RowIds(db) /\ DeleteCalled(id) /\ pc' = "idle")
              => res'.status = "err"
        /\ (pc = "delete_row" /\ pc' = "idle" /\ res'.status = "ok")
           => /\ res' = OkBool(TRUE)
              /\ files' = files
              /\ db' = {r \in db : r.id # call.id}
              /\ call.id \notin RowIds(db')
              /\ ~Exists(files', BlobPath(call.filename)) ]_vars

\* delete is between its sub-steps for a record whose blob file was already
\* absent when it was called
C8_Witness == pc = "delete_row" /\ ~call.existed /\ call.id \in RowIds(db)

C10_ExportLeavesRecordsAndBlobs ==
    [][ (pc = "export_loop" \/ pc' = "export_loop")
        => /\ db' = db
           /\ \A r \in db :
                 Exists(files, BlobPath(r.filename))
                 => /\ Exists(files', BlobPath(r.filename))
                    /\ files'[BlobPath(r.filename)] = files[BlobPath(r.filename)] ]_vars

\* ---- C11
\* C11: read(id) returns the typed failure of the first failing step and no
\* content: NoteNotFound when no row has the id, Io when the row's blob file
\* is absent, Encryption when the blob's text does not decode or verify,
\* Validation when the decrypted bytes are not valid text.
C11_ReadFailuresAreTyped ==
    [][ \A id \in Ids :
          ReadNote(id)
          => /\ ~HasNote(db, id) => res' = Err("NoteNotFound")
             /\ HasNote(db, id)
                => LET p == BlobPath(get_note(db, id).filename)
                   IN  /\ ~Exists(files, p) => res' = Err("Io")
                       /\ (Exists(files, p) /\ IsUtf8(RawBytes(files[p]))
                             /\ ~DecryptOk(files[p]))
                          => res' = Err("Encryption")
                       /\ (Exists(files, p) /\ DecryptOk(files[p])
                             /\ ~IsUtf8(Decrypt(files[p])))
                          => res' = Err("Validation") ]_vars

\* ---- C12
\* the records of a returned list
Returned(result) == {result.notes[i] : i \in 1..Len(result.notes)}

\* the rows whose title or file name holds the query, character for character
LiteralMatches(rows, query) ==
    {r \in rows : Contains(r.title, query) \/ Contains(r.filename, query)}

\* C12: search(query) returns, once each, exactly the rows whose title or
\* file name contains the query as a case-sensitive literal substring, for
\* every query, those holding '%' or '_' or letters of the other case
\* included; the empty query returns every row.
C12_SearchIsLiteralSubstring ==
    [][ \A query \in Queries :
          SearchNotes(query)
          => /\ Returned(res') = LiteralMatches(db, query)
             /\ Len(res'.notes) = Cardinality(LiteralMatches(db, query))
             /\ query = <<>> => Returned(res') = db ]_vars

\* ---- C13
\* C13: decrypt(encrypt(b)) = b for every byte sequence b, the empty one
\* included: decrypt accepts what encrypt returned under the same key and
\* gives back the bytes encrypt was given.
C13_DecryptInvertsEncrypt ==
    probe.op = "decrypt" => (probe.out.ok /\ probe.out.bytes = probe.data)

\* the empty sequence has gone through encrypt and decrypt
C13_Witness == probe.op = "decrypt" /\ probe.data = <<>> /\ probe.out.ok

\* ---- C14
\* C14: list() returns every row of the index exactly once, the most recent
\* created_at first, and rows of equal created_at in an order the rows
\* themselves fix: for an index there is one list that list() can return.
C14_ListOrderIsDeterministic ==
    [][ ListNotes
        => /\ Returned(res') = db
           /\ Len(res'.notes) = Cardinality(db)
           /\ \A i, j \in 1..Len(res'.notes) :
                 i < j => res'.notes[i].created_at >= res'.notes[j].created_at
           /\ \A other \in Listings(db) : other = res'.notes ]_vars

\* ---- C15
\* the sub-steps of edit_note after its first
EditPcs == {"edit_write_temp", "edit_editor", "edit_cleanup", "edit_overwrite",
            "edit_remove_temp"}

\* a step of edit(id): its call, or one of its later sub-steps, or its end by
\* a failure or a kill
EditStep ==
    \/ \E id \in Ids : EditBegin(id) \/ EditBeginFail(id)
    \/ pc \in EditPcs

\* C15: no step of edit(id) changes the index: when edit returns, with
\* success or with any failure, every row has the id, title, file name,
\* created_at and updated_at it had.
C15_EditLeavesIndexUnchanged ==
    [][ EditStep => db' = db ]_vars

\* edit has overwritten the blob with new content, at a clock reading later
\* than the row's updated_at
C15_Witness ==
    /\ pc = "edit_remove_temp"
    /\ HasNote(db, call.id)
    /\ Exists(files, BlobPath(call.filename))
    /\ files[BlobPath(call.filename)] # call.encrypted
    /\ get_note(db, call.id).updated_at < now

\* ---- C16
\* C16: when the editor has exited with success, the overwrite step stores
\* in the blob exactly the bytes the editor left in the temporary file (a
\* read of the note returns them when they are text) while the temporary file
\* is still there; the step that makes edit return success removes the
\* temporary file and leaves the blob, and what a read returns, as the
\* overwrite made them.
C16_EditStoresWhatTheEditorLeft ==
    [][ /\ (pc = "edit_overwrite" /\ pc' = "edit_remove_temp")
           => LET left == RawBytes(files[BlobPath(call.temp)])
                  blob == BlobPath(call.filename)
              IN  /\ Exists(files', BlobPath(call.temp))
                  /\ Exists(files', blob)
                  /\ DecryptOk(files'[blob])
                  /\ Decrypt(files'[blob]) = left
                  /\ IsUtf8(left) => read_note(db', files', call.id) = OkText(left)
        /\ (pc = "edit_remove_temp" /\ pc' = "idle" /\ res' = Ok)
           => /\ ~Exists(files', BlobPath(call.temp))
              /\ Exists(files', BlobPath(call.filename))
              /\ files'[BlobPath(call.filename)] = files[BlobPath(call.filename)]
              /\ read_note(db', files', call.id) = read_note(db, files, call.id) ]_vars

\* ---- C17
\* C17: when no editor is configured and the environment names none, edit
\* returns EditorNotFound having touched nothing: no temporary file is in the
\* notes directory and the blob holds the bytes it held when edit was called.
C17_NoEditorTouchesNothing ==
    [][ (\E editor \in Editors : EditNoEditor(editor))
        => /\ res' = Err("EditorNotFound")
           /\ ~Exists(files', BlobPath(call.temp))
           /\ Exists(files', BlobPath(call.filename))
           /\ files'[BlobPath(call.filename)] = call.encrypted ]_vars

\* ---- C18
\* C18: when the blob has been overwritten and the removal of the temporary
\* file fails, edit returns success: the blob holds the new content and the
\* temporary file is left behind.
C18_TempRemovalFailureIsBenign ==
    [][ EditRemoveTempFail
        => /\ res' = Ok
           /\ Exists(files', BlobPath(call.temp))
           /\ Exists(files', BlobPath(call.filename))
           /\ DecryptOk(files'[BlobPath(call.filename)]) ]_vars

\* ---- C19
\* the title part of a blob name: after "YYYYMMDD-HHMMSS-", before ".ext"
BlobTitlePart(name, ext) == SubSeq(name, Len(FormatTimestamp(0)) + 2, Len(name) - Len(ext) - 1)

\* the title part of an export name: before ".ext"
ExportTitlePart(name, ext) == SubSeq(name, 1, Len(name) - Len(ext) - 1)

\* the sanitization the claim describes
ClaimedSanitize(title) ==
    LET replaced == [i \in 1..Len(title) |->
                       IF IsAlphanumeric(title[i]) \/ title[i] \in {"-", "_"}
                       THEN title[i] ELSE "-"]
        trimmed  == TrimMatchesDash(replaced)
    IN  SubSeq(trimmed, 1, IF Len(trimmed) > 255 THEN 255 ELSE Len(trimmed))

\* C19: for every title, the title part of the blob name create builds and
\* the title part of the export name are the same text: the title with every
\* character other than alphanumerics, '-' and '_' replaced by '-', the
\* leading and trailing '-' trimmed, at most 255 characters.
C19_OneSanitization ==
    probe.op = "filename"
    => /\ BlobTitlePart(probe.blob, config.default_extension)
            = ExportTitlePart(probe.export, config.default_extension)
       /\ BlobTitlePart(probe.blob, config.default_extension) = ClaimedSanitize(probe.title)

\* ---- C20
\* C20: the temporary path edit(id) computes is the path of no record's blob,
\* that of the note being edited included, and writing the temporary file
\* changes no record's blob.
C20_TempPathIsNoBlobPath ==
    [][ /\ \A id \in Ids : EditBegin(id) => call'.temp \notin Filenames(db)
        /\ (pc = "edit_write_temp" /\ pc' = "edit_editor")
           => \A r \in db :
                 Exists(files, BlobPath(r.filename))
                 => /\ Exists(files', BlobPath(r.filename))
                    /\ files'[BlobPath(r.filename)] = files[BlobPath(r.filename)] ]_vars

\* ---- C21
\* C21: a create whose file name a row of the index already has fails
\* without side effects: its write step leaves the existing blob decrypting
\* to the content it had, and the insert step that rejects the row returns an
\* error with the index and the files as they were.
C21_DuplicateCreateHasNoSideEffect ==
    [][ /\ (pc = "create_write" /\ pc' = "create_insert"
             /\ call.filename \in Filenames(db)
             /\ Exists(files, BlobPath(call.filename))
             /\ DecryptOk(files[BlobPath(call.filename)]))
           => /\ db' = db
              /\ DecryptOk(files'[BlobPath(call.filename)])
              /\ Decrypt(files'[BlobPath(call.filename)])
                    = Decrypt(files[BlobPath(call.filename)])
        /\ CreateInsertDuplicate
           => /\ res'.status = "err"
              /\ db' = db
              /\ files' = files ]_vars

\* ---- C22
\* C22: ids are unique over the whole history of the index: the id a create
\* gives its new row was given to no row before it, rows since deleted
\* included.
C22_IdsAreNeverReused ==
    [][ CreateInsert => \A r \in db' \ db : r.id \notin issued ]_vars

====
